---------------------------- MODULE Spec2Model ----------------------------
(* Model of raw_pdb's MSF container layer (src/PDB_RawFile.cpp) and of   *)
(* the C13 line-information walker (src/PDB_ModuleLineStream.h).          *)
(*                                                                        *)
(* A uint32_t that can exceed the range of the checker's integers is a    *)
(* record [hi, lo] of its two 16-bit halves; block sizes, block counts,   *)
(* directory entry indices and stream offsets are plain integers.         *)
(* size_t is 64 bits wide: no size_t sum of the model wraps.              *)
EXTENDS Integers, Naturals, Sequences, FiniteSets, TLC

-----------------------------------------------------------------------------
(* Bounds *)

MaxStreams == 3
MaxAllocs == 3
NumSlots == 2
MaxSections == 2
MaxEntries == 2
MaxStreamWords == 10
MaxCalls == 8

-----------------------------------------------------------------------------
(* 32-bit unsigned values *)

Half == 65536

U32(h, l) == [hi |-> h, lo |-> l]

U32Le(a, b) == a.hi < b.hi \/ (a.hi = b.hi /\ a.lo <= b.lo)

\* PDB::NilStreamSize, the size the directory records for an absent stream
NilStreamSize == U32(65535, 65535)

\* the mathematical ceil(size / blockSize); blockSize divides 65536
CeilDiv(size, blockSize) ==
    size.hi * (Half \div blockSize) + (size.lo \div blockSize)
        + (IF size.lo % blockSize = 0 THEN 0 ELSE 1)

\* (sizeInBytes + blockSize - 1) / blockSize on (uint32_t, uint32_t):
\* the sum wraps modulo 2^32
ConvertSizeToBlockCount(sizeInBytes, blockSize) ==
    LET lsum == sizeInBytes.lo + blockSize - 1
        hsum == (sizeInBytes.hi + (lsum \div Half)) % Half
    IN  hsum * (Half \div blockSize) + ((lsum % Half) \div blockSize)

BlockSizes == {512, 1024, 2048, 4096}

-----------------------------------------------------------------------------
(* The image handed to RawFile::RawFile(const void* data) *)

SizeofSuperBlock == 56

\* SuperBlock::blockCount of the images tried
BlockCount == 16

\* the SuperBlock and image-length cases tried: a sound image, an image
\* shorter than the SuperBlock, a wrong magic, a directory-indices block
\* outside the image, a directory block outside the image
HeaderCases ==
    {[short |-> FALSE, magicOk |-> TRUE,  directoryIndicesBlockIndex |-> 1,  directoryBlock |-> 4],
     [short |-> TRUE,  magicOk |-> TRUE,  directoryIndicesBlockIndex |-> 1,  directoryBlock |-> 4],
     [short |-> FALSE, magicOk |-> FALSE, directoryIndicesBlockIndex |-> 1,  directoryBlock |-> 4],
     [short |-> FALSE, magicOk |-> TRUE,  directoryIndicesBlockIndex |-> BlockCount, directoryBlock |-> 4],
     [short |-> FALSE, magicOk |-> TRUE,  directoryIndicesBlockIndex |-> 1,  directoryBlock |-> BlockCount + 83]}

\* SuperBlock::directorySize
DirectorySizes == {U32(0, 16), U32(0, 600), U32(0, 5000)}

\* values of the directory's streamSizes[] entries
StreamSizeValues ==
    {U32(0, 0), U32(0, 100), U32(1, 1), U32(65535, 65534), NilStreamSize}

StreamSizeSeqs == UNION {[1..n -> StreamSizeValues] : n \in 0..MaxStreams}

MakeImage(h, bs, ds, ss) ==
    [len |-> IF h.short THEN 16 ELSE BlockCount * bs,
     magicOk |-> h.magicOk,
     blockSize |-> bs,
     blockCount |-> BlockCount,
     directorySize |-> ds,
     directoryIndicesBlockIndex |-> h.directoryIndicesBlockIndex,
     directoryBlock |-> h.directoryBlock,
     streamSizes |-> ss]

SoundHeader(h) ==
    /\ ~h.short
    /\ h.magicOk
    /\ h.directoryIndicesBlockIndex < BlockCount
    /\ h.directoryBlock < BlockCount

\* every directory over a sound SuperBlock, and two directories over each
\* unsound one
Images ==
    {MakeImage(h, bs, ds, ss) :
        h \in {c \in HeaderCases : SoundHeader(c)}, bs \in BlockSizes,
        ds \in DirectorySizes, ss \in StreamSizeSeqs}
    \cup
    {MakeImage(h, bs, U32(0, 600), ss) :
        h \in HeaderCases, bs \in BlockSizes,
        ss \in {<<>>, <<U32(0, 100)>>}}

\* the images of the ownership specification: sound, two block sizes
OwnImages ==
    {MakeImage(h, bs, U32(0, 600), ss) :
        h \in {c \in HeaderCases : SoundHeader(c)},
        bs \in {512, 4096},
        ss \in {<<>>, <<U32(0, 100), NilStreamSize, U32(1, 1)>>}}

\* the sizes passed to CreateMSFStream(streamIndex, streamSize)
TruncatedSizes == {U32(0, 0), U32(0, 100), U32(0, 101), U32(1, 1), NilStreamSize}

-----------------------------------------------------------------------------
(* State *)

VARIABLES
    image,        \* the bytes behind m_data, as the fields the code reads
    files,        \* the RawFile objects, one per slot
    heap,         \* the arrays PDB_NEW_ARRAY has handed out
    view,         \* the stream view CreateMSFStream returned last
    assertFailed, \* a PDB_ASSERT of the last call did not hold
    ctor,         \* outcome of the last RawFile(const void*) call
    lastOp        \* the RawFile operation that ran last

fileVars == <<image, files, heap, view, assertFailed, ctor, lastOp>>

Slots == 1..NumSlots
AllocIds == 1..MaxAllocs

\* nullptr for m_streamBlocks
NullArray == 0

NoFile ==
    [live |-> FALSE, m_data |-> "null", m_superBlock |-> "null",
     m_directoryStream |-> "none", m_streamCount |-> 0,
     m_streamSizes |-> "null", m_streamBlocks |-> NullArray]

NoView == [made |-> FALSE]

NoCtor == [done |-> FALSE]

\* an operation with the slots and arguments it was called with
Op(op, d, s, i, n) ==
    [op |-> op, dst |-> d, src |-> s, streamIndex |-> i, streamSize |-> n]

NoOp == Op("none", 0, 0, 0, U32(0, 0))

UnusedArray == [state |-> "unused", releases |-> 0, rows |-> <<>>]

-----------------------------------------------------------------------------
(* RawFile::RawFile(const void* data) *)

\* GetDirectoryBlockCount
GetDirectoryBlockCount(superBlock) ==
    ConvertSizeToBlockCount(superBlock.directorySize, superBlock.blockSize)

\* GetDirectoryBlockIndices: the file offset of the directory block indices
GetDirectoryBlockIndices(superBlock) ==
    superBlock.directoryIndicesBlockIndex * superBlock.blockSize

\* the loop of the constructor: m_streamBlocks[i] = cursor; cursor += blockCount
RECURSIVE FillStreamBlocks(_, _, _, _)
FillStreamBlocks(sizes, blockSize, cursor, i) ==
    IF i > Len(sizes) THEN <<>>
    ELSE <<cursor>> \o
         FillStreamBlocks(sizes, blockSize,
                          cursor + ConvertSizeToBlockCount(sizes[i], blockSize),
                          i + 1)

\* directory entry index of directoryStreamBlocks:
\* (sizeof(uint32_t) + sizeof(uint32_t) * m_streamCount) / sizeof(uint32_t)
DirectoryStreamBlocks(streamCount) == 1 + streamCount

\* the constructor reads the SuperBlock at offset 0, the directory-indices
\* block and the directory blocks without looking at any length
ReadsOutsideImage(img) ==
    \/ SizeofSuperBlock > img.len
    \/ GetDirectoryBlockIndices(img) + 4 * GetDirectoryBlockCount(img) > img.len
    \/ (GetDirectoryBlockCount(img) > 0
        /\ (img.directoryBlock + 1) * img.blockSize > img.len)

Construct(s) ==
    /\ ~files[s].live
    /\ \E a \in AllocIds :
        /\ heap[a].state = "unused"
        /\ \A b \in AllocIds : b < a => heap[b].state # "unused"
        /\ LET streamCount == Len(image.streamSizes)
               rows == FillStreamBlocks(image.streamSizes, image.blockSize,
                                        DirectoryStreamBlocks(streamCount), 1)
           IN  /\ heap' = [heap EXCEPT ![a] =
                             [state |-> "allocated", releases |-> 0, rows |-> rows]]
               /\ files' = [files EXCEPT ![s] =
                             [live |-> TRUE, m_data |-> "image",
                              m_superBlock |-> "image",
                              m_directoryStream |-> "directory",
                              m_streamCount |-> streamCount,
                              m_streamSizes |-> "directory",
                              m_streamBlocks |-> a]]
    /\ ctor' = [done |-> TRUE, slot |-> s, result |-> "ok",
                readOutside |-> ReadsOutsideImage(image)]
    /\ lastOp' = Op("Construct", s, s, 0, U32(0, 0))
    /\ UNCHANGED <<image, view, assertFailed>>

-----------------------------------------------------------------------------
(* Moves and destruction *)

\* PDB_DELETE_ARRAY(m_streamBlocks): delete[] of nullptr does nothing
DeleteArray(h, a) ==
    IF a = NullArray THEN h
    ELSE [h EXCEPT ![a].state = "freed", ![a].releases = @ + 1]

\* a move that forgets other.m_streamBlocks = nullptr
MovedFrom_KeepsBlocks(other) ==
    [other EXCEPT !.m_data = "null", !.m_superBlock = "null",
                  !.m_directoryStream = "moved", !.m_streamCount = 0,
                  !.m_streamSizes = "null"]

\* what both moves leave in `other`
MovedFrom(other) ==
    [other EXCEPT !.m_data = "null", !.m_superBlock = "null",
                  !.m_directoryStream = "moved", !.m_streamCount = 0,
                  !.m_streamSizes = "null", !.m_streamBlocks = NullArray]

\* RawFile(RawFile&& other): `this` is a new object in slot d
MoveConstruct(d, s) ==
    /\ d # s
    /\ ~files[d].live
    /\ files[s].live
    /\ files' = [files EXCEPT ![d] = files[s], ![s] = MovedFrom(files[s])]
    /\ lastOp' = Op("MoveConstruct", d, s, 0, U32(0, 0))
    /\ UNCHANGED <<image, heap, view, assertFailed, ctor>>

\* operator=(RawFile&& other)
MoveAssign(d, s) ==
    /\ files[d].live
    /\ files[s].live
    /\ IF d # s
       THEN /\ heap' = DeleteArray(heap, files[d].m_streamBlocks)
            /\ files' = [files EXCEPT ![d] = files[s], ![s] = MovedFrom(files[s])]
       ELSE UNCHANGED <<heap, files>>
    /\ lastOp' = Op("MoveAssign", d, s, 0, U32(0, 0))
    /\ UNCHANGED <<image, view, assertFailed, ctor>>

\* ~RawFile
Destroy(s) ==
    /\ files[s].live
    /\ heap' = DeleteArray(heap, files[s].m_streamBlocks)
    /\ files' = [files EXCEPT ![s] = NoFile]
    /\ lastOp' = Op("Destroy", s, s, 0, U32(0, 0))
    /\ UNCHANGED <<image, view, assertFailed, ctor>>

-----------------------------------------------------------------------------
(* CreateMSFStream *)

\* T(m_data, m_superBlock->blockSize, m_streamBlocks[streamIndex], size):
\* the view keeps the four arguments
MakeStream(f, streamIndex, size, truncated) ==
    [made |-> TRUE,
     streamIndex |-> streamIndex,
     truncated |-> truncated,
     data |-> f.m_data,
     blockSize |-> image.blockSize,
     blockIndices |-> heap[f.m_streamBlocks].rows[streamIndex + 1],
     size |-> size]

\* CreateMSFStream(uint32_t streamIndex); streamIndex counts from 0
CreateMSFStream(s, streamIndex) ==
    /\ files[s].live
    /\ streamIndex < files[s].m_streamCount
    /\ view' = MakeStream(files[s], streamIndex,
                          image.streamSizes[streamIndex + 1], FALSE)
    /\ assertFailed' = FALSE
    /\ lastOp' = Op("CreateMSFStream", s, s, streamIndex, U32(0, 0))
    /\ UNCHANGED <<image, files, heap, ctor>>

\* a truncating overload that passes m_streamSizes[streamIndex] on
CreateMSFStreamTruncated_IgnoresSize(s, streamIndex, streamSize) ==
    /\ files[s].live
    /\ streamIndex < files[s].m_streamCount
    /\ assertFailed' = ~U32Le(streamSize, image.streamSizes[streamIndex + 1])
    /\ view' = MakeStream(files[s], streamIndex,
                          image.streamSizes[streamIndex + 1], TRUE)
    /\ lastOp' = Op("CreateMSFStreamTruncated", s, s, streamIndex, streamSize)
    /\ UNCHANGED <<image, files, heap, ctor>>

\* CreateMSFStream(uint32_t streamIndex, uint32_t streamSize)
CreateMSFStreamTruncated(s, streamIndex, streamSize) ==
    /\ files[s].live
    /\ streamIndex < files[s].m_streamCount
    /\ assertFailed' = ~U32Le(streamSize, image.streamSizes[streamIndex + 1])
    /\ view' = MakeStream(files[s], streamIndex, streamSize, TRUE)
    /\ lastOp' = Op("CreateMSFStreamTruncated", s, s, streamIndex, streamSize)
    /\ UNCHANGED <<image, files, heap, ctor>>

-----------------------------------------------------------------------------
(* The bytes of a module's C13 line-information stream *)

SizeofDebugSubsectionHeader == 8
SizeofLinesHeader == 12
SizeofLinesFileBlockHeader == 12
SizeofFileChecksumHeader == 8

\* CodeView::DBI::DebugSubsectionKind
S_LINES == 242
S_FILECHECKSUMS == 244

\* BitUtil::RoundUpToMultiple: (value + multiple - 1) & ~(multiple - 1)
RoundUpToMultiple(value, multiple) ==
    (value + multiple - 1) - ((value + multiple - 1) % multiple)

Max(S) == CHOOSE x \in S : \A y \in S : y <= x

SeqsUpTo(S, n) == UNION {[1..k -> S] : k \in 0..n}

\* The streams tried are written from a layout: sections, each a
\* DebugSubsectionHeader [kind, size] followed by its entries.  An entry is
\* a LinesFileBlockHeader whose size field holds e, or a FileChecksumHeader
\* whose checksumSize holds e followed by e checksum bytes.  A packed
\* section puts each entry right behind the one before; otherwise each
\* entry starts at the next multiple of 4.  All other bytes are 0.

C13Offsets == {0, 4}
Kinds == {S_LINES, S_FILECHECKSUMS}
EntrySizes == {0, 12, 13, 15, 16}
HeaderSizeValues == {0, 4, 12, 13, 200}
HeaderSlack == {0, 4, 40}
StreamLengths == {4 * k : k \in 1..MaxStreamWords}

EntryLength(kind, e) ==
    IF kind = S_LINES THEN e ELSE SizeofFileChecksumHeader + e

EntryHeaderLength(kind) ==
    IF kind = S_LINES THEN SizeofLinesFileBlockHeader ELSE SizeofFileChecksumHeader

FirstEntry(kind, sec) ==
    sec + SizeofDebugSubsectionHeader
        + (IF kind = S_LINES THEN SizeofLinesHeader ELSE 0)

NextEntry(kind, packed, p, e) ==
    IF packed THEN p + EntryLength(kind, e)
    ELSE RoundUpToMultiple(p + EntryLength(kind, e), 4)

\* where the entries of a section lie, the first at p
RECURSIVE EntryOffsets(_, _, _, _)
EntryOffsets(kind, packed, p, entries) ==
    IF entries = <<>> THEN <<>>
    ELSE <<p>> \o EntryOffsets(kind, packed,
                               NextEntry(kind, packed, p, Head(entries)),
                               Tail(entries))

\* where the last entry of a section ends
RECURSIVE BodyEnd(_, _, _, _)
BodyEnd(kind, packed, p, entries) ==
    IF entries = <<>> THEN p
    ELSE IF Len(entries) = 1 THEN p + EntryLength(kind, Head(entries))
    ELSE BodyEnd(kind, packed, NextEntry(kind, packed, p, Head(entries)),
                 Tail(entries))

\* the header.size under which the entries fill the section body
ExactSize(kind, packed, sec, entries) ==
    BodyEnd(kind, packed, FirstEntry(kind, sec), entries)
        - (sec + SizeofDebugSubsectionHeader)

\* one section with entries, header.size off by slack
RichLayout(c, kind, entries, packed, slack) ==
    LET first == FirstEntry(kind, c)
        offs  == EntryOffsets(kind, packed, first, entries)
        extent == Max({first, BodyEnd(kind, packed, first, entries)}
                      \cup {offs[i] + EntryHeaderLength(kind) : i \in DOMAIN offs})
    IN  [c13 |-> c,
         sections |-> <<[kind |-> kind,
                         size |-> ExactSize(kind, packed, c, entries) + slack,
                         entries |-> entries,
                         packed |-> packed]>>,
         length |-> RoundUpToMultiple(extent, 4)]

RichLayouts ==
    {RichLayout(c, k, es, pk, sl) :
        c \in C13Offsets, k \in Kinds, es \in SeqsUpTo(EntrySizes, MaxEntries),
        pk \in BOOLEAN, sl \in HeaderSlack}

\* sections without entries, any header.size, any stream length
PlainLayouts ==
    {[c13 |-> c,
      sections |-> [i \in DOMAIN hs |->
                      [kind |-> hs[i][1], size |-> hs[i][2],
                       entries |-> <<>>, packed |-> FALSE]],
      length |-> n] :
        c \in C13Offsets,
        hs \in SeqsUpTo(Kinds \X HeaderSizeValues, MaxSections) \ {<<>>},
        n \in StreamLengths}

Layouts == RichLayouts \cup PlainLayouts

\* the fields a section at sec writes
EntryFields(sec, d) ==
    LET offs == EntryOffsets(d.kind, d.packed, FirstEntry(d.kind, sec), d.entries)
    IN  [i \in DOMAIN offs |->
            IF d.kind = S_LINES
            THEN [at |-> offs[i] + 8, width |-> 4, value |-> d.entries[i]]
            ELSE [at |-> offs[i] + 4, width |-> 1, value |-> d.entries[i]]]

RECURSIVE SectionFields(_, _)
SectionFields(sec, sections) ==
    IF sections = <<>> THEN <<>>
    ELSE LET d == Head(sections)
         IN  <<[at |-> sec, width |-> 4, value |-> d.kind],
               [at |-> sec + 4, width |-> 4, value |-> d.size]>>
             \o EntryFields(sec, d)
             \o SectionFields(
                  RoundUpToMultiple(sec + SizeofDebugSubsectionHeader + d.size, 4),
                  Tail(sections))

Pow256(k) == CASE k = 0 -> 1 [] k = 1 -> 256 [] k = 2 -> 65536 [] OTHER -> 16777216

\* the byte at offset o: little-endian, a later field overwrites an earlier one
ByteOf(fields, o) ==
    LET idx == {i \in DOMAIN fields :
                   fields[i].at <= o /\ o < fields[i].at + fields[i].width}
    IN  IF idx = {} THEN 0
        ELSE LET f == fields[Max(idx)]
             IN  (f.value \div Pow256(o - f.at)) % 256

StreamOf(l) ==
    LET fields == SectionFields(l.c13, l.sections)
    IN  [i \in 1..l.length |-> ByteOf(fields, i - 1)]

-----------------------------------------------------------------------------
(* ModuleLineStream *)

VARIABLES
    layout,               \* what the stream was written from
    m_stream,             \* the bytes of the coalesced module stream
    m_c13LineInfoOffset,
    pcS,                  \* ForEachSection: "idle", "loop", "callback", "done"
    offset,               \* ForEachSection's offset
    yielded,              \* offsets of the sections passed to the functor
    pcB,                  \* ForEachLinesBlock / ForEachFileChecksum
    entOffset,            \* their offset
    headerEnd,            \* their headerEnd
    walked,               \* offsets of the entries passed to their functor
    mismatch,             \* their final PDB_ASSERT(offset == headerEnd) failed
    result                \* what ForEachSection reported to its caller

walkVars == <<layout, m_stream, m_c13LineInfoOffset, pcS, offset, yielded,
              pcB, entOffset, headerEnd, walked, mismatch, result>>

\* m_stream.GetSize()
GetSize == Len(m_stream)

\* values a read past the end of the stream may produce
UnspecifiedValues == {0, 12}

U32At(o) ==
    m_stream[o + 1] + 256 * m_stream[o + 2] + 65536 * m_stream[o + 3]
        + 16777216 * m_stream[o + 4]

\* the values a uint32_t field at offset o can read as
ReadU32(o) == IF o + 4 <= GetSize THEN {U32At(o)} ELSE UnspecifiedValues

\* the values a uint8_t field at offset o can read as
ReadU8(o) == IF o + 1 <= GetSize THEN {m_stream[o + 1]} ELSE UnspecifiedValues

\* ForEachSection: size_t offset = m_c13LineInfoOffset
BeginSections ==
    /\ pcS = "idle"
    /\ pcS' = "loop"
    /\ offset' = m_c13LineInfoOffset
    /\ yielded' = <<>>
    /\ UNCHANGED <<layout, m_stream, m_c13LineInfoOffset, pcB, entOffset,
                   headerEnd, walked, mismatch, result>>

\* while (offset < m_stream.GetSize()) { functor(section);
YieldSection ==
    /\ pcS = "loop"
    /\ offset < GetSize
    /\ pcS' = "callback"
    /\ yielded' = Append(yielded, offset)
    /\ UNCHANGED <<layout, m_stream, m_c13LineInfoOffset, offset, pcB,
                   entOffset, headerEnd, walked, mismatch, result>>

\* the functor has returned:
\* offset = RoundUpToMultiple(offset + sizeof(header) + section->header.size, 4)
AdvanceSection ==
    /\ pcS = "callback"
    /\ pcB \in {"idle", "linesDone", "checksumsDone"}
    /\ \E size \in ReadU32(offset + 4) :
          offset' = RoundUpToMultiple(offset + SizeofDebugSubsectionHeader + size, 4)
    /\ pcS' = "loop"
    /\ pcB' = "idle"
    /\ UNCHANGED <<layout, m_stream, m_c13LineInfoOffset, yielded, entOffset,
                   headerEnd, walked, mismatch, result>>

\* the loop is left and ForEachSection returns; it returns void
EndSections ==
    /\ pcS = "loop"
    /\ offset >= GetSize
    /\ pcS' = "done"
    /\ result' = "returned"
    /\ UNCHANGED <<layout, m_stream, m_c13LineInfoOffset, offset, yielded, pcB,
                   entOffset, headerEnd, walked, mismatch>>

\* a ForEachLinesBlock that starts right behind the subsection header
BeginLinesBlocks_NoLinesHeader ==
    /\ pcS = "callback"
    /\ pcB = "idle"
    /\ S_LINES \in ReadU32(offset)
    /\ \E size \in ReadU32(offset + 4) :
          headerEnd' = RoundUpToMultiple(offset + SizeofDebugSubsectionHeader + size, 4)
    /\ entOffset' = RoundUpToMultiple(offset + SizeofDebugSubsectionHeader, 4)
    /\ pcB' = "lines"
    /\ walked' = <<>>
    /\ mismatch' = FALSE
    /\ UNCHANGED <<layout, m_stream, m_c13LineInfoOffset, pcS, offset, yielded,
                   result>>

\* ForEachLinesBlock(section, functor), called by the functor of
\* ForEachSection on the section it was handed; the caller keeps the
\* asserted precondition kind == S_LINES
BeginLinesBlocks ==
    /\ pcS = "callback"
    /\ pcB = "idle"
    /\ S_LINES \in ReadU32(offset)
    /\ \E size \in ReadU32(offset + 4) :
          headerEnd' = RoundUpToMultiple(offset + SizeofDebugSubsectionHeader + size, 4)
    /\ entOffset' = RoundUpToMultiple(
                        offset + SizeofDebugSubsectionHeader + SizeofLinesHeader, 4)
    /\ pcB' = "lines"
    /\ walked' = <<>>
    /\ mismatch' = FALSE
    /\ UNCHANGED <<layout, m_stream, m_c13LineInfoOffset, pcS, offset, yielded,
                   result>>

\* while (offset < headerEnd) { functor(linesBlockHeader);
\*   offset = RoundUpToMultiple(offset + linesBlockHeader->size, 4); }
LinesBlockStep ==
    /\ pcB = "lines"
    /\ entOffset < headerEnd
    /\ Len(walked) < MaxCalls
    /\ walked' = Append(walked, entOffset)
    /\ \E size \in ReadU32(entOffset + 8) :
          entOffset' = RoundUpToMultiple(entOffset + size, 4)
    /\ UNCHANGED <<layout, m_stream, m_c13LineInfoOffset, pcS, offset, yielded,
                   pcB, headerEnd, mismatch, result>>

\* PDB_ASSERT(offset == headerEnd, ...)
EndLinesBlocks ==
    /\ pcB = "lines"
    /\ entOffset >= headerEnd
    /\ pcB' = "linesDone"
    /\ mismatch' = (entOffset # headerEnd)
    /\ UNCHANGED <<layout, m_stream, m_c13LineInfoOffset, pcS, offset, yielded,
                   entOffset, headerEnd, walked, result>>

\* ForEachFileChecksum(section, functor), called likewise on a section of
\* kind S_FILECHECKSUMS
BeginFileChecksums ==
    /\ pcS = "callback"
    /\ pcB = "idle"
    /\ S_FILECHECKSUMS \in ReadU32(offset)
    /\ \E size \in ReadU32(offset + 4) :
          headerEnd' = RoundUpToMultiple(offset + SizeofDebugSubsectionHeader + size, 4)
    /\ entOffset' = RoundUpToMultiple(offset + SizeofDebugSubsectionHeader, 4)
    /\ pcB' = "checksums"
    /\ walked' = <<>>
    /\ mismatch' = FALSE
    /\ UNCHANGED <<layout, m_stream, m_c13LineInfoOffset, pcS, offset, yielded,
                   result>>

\* while (offset < headerEnd) { functor(fileChecksumHeader);
\*   offset = RoundUpToMultiple(offset + sizeof(FileChecksumHeader)
\*                                     + fileChecksumHeader->checksumSize, 4); }
FileChecksumStep ==
    /\ pcB = "checksums"
    /\ entOffset < headerEnd
    /\ Len(walked) < MaxCalls
    /\ walked' = Append(walked, entOffset)
    /\ \E checksumSize \in ReadU8(entOffset + 4) :
          entOffset' = RoundUpToMultiple(
                           entOffset + SizeofFileChecksumHeader + checksumSize, 4)
    /\ UNCHANGED <<layout, m_stream, m_c13LineInfoOffset, pcS, offset, yielded,
                   pcB, headerEnd, mismatch, result>>

EndFileChecksums ==
    /\ pcB = "checksums"
    /\ entOffset >= headerEnd
    /\ pcB' = "checksumsDone"
    /\ mismatch' = (entOffset # headerEnd)
    /\ UNCHANGED <<layout, m_stream, m_c13LineInfoOffset, pcS, offset, yielded,
                   entOffset, headerEnd, walked, result>>

-----------------------------------------------------------------------------
(* Specifications *)

vars == <<image, files, heap, view, assertFailed, ctor, lastOp,
          layout, m_stream, m_c13LineInfoOffset, pcS, offset, yielded,
          pcB, entOffset, headerEnd, walked, mismatch, result>>

InitFileState ==
    /\ files = [s \in Slots |-> NoFile]
    /\ heap = [a \in AllocIds |-> UnusedArray]
    /\ view = NoView
    /\ assertFailed = FALSE
    /\ ctor = NoCtor
    /\ lastOp = NoOp

InitWalkState ==
    /\ m_stream = StreamOf(layout)
    /\ m_c13LineInfoOffset = layout.c13
    /\ pcS = "idle"
    /\ offset = 0
    /\ yielded = <<>>
    /\ pcB = "idle"
    /\ entOffset = 0
    /\ headerEnd = 0
    /\ walked = <<>>
    /\ mismatch = FALSE
    /\ result = "none"

SoundImage == MakeImage(CHOOSE h \in HeaderCases : SoundHeader(h), 512,
                        U32(0, 600), <<U32(0, 100)>>)

EmptyLayout == [c13 |-> 0, sections |-> <<>>, length |-> 0]

\* one RawFile over any image: parsing and stream creation
InitFile ==
    /\ image \in Images
    /\ InitFileState
    /\ layout = EmptyLayout
    /\ InitWalkState

NextFile ==
    /\ \/ Construct(1)
       \/ \E i \in 0..(MaxStreams - 1) : CreateMSFStream(1, i)
       \/ \E i \in 0..(MaxStreams - 1), n \in TruncatedSizes :
             CreateMSFStreamTruncated(1, i, n)
    /\ UNCHANGED walkVars

SpecFile == InitFile /\ [][NextFile]_vars

\* several RawFile objects over a sound image: moves and destruction
InitOwn ==
    /\ image \in OwnImages
    /\ InitFileState
    /\ layout = EmptyLayout
    /\ InitWalkState

NextOwn ==
    /\ \/ \E s \in Slots : Construct(s)
       \/ \E d \in Slots, s \in Slots : MoveConstruct(d, s)
       \/ \E d \in Slots, s \in Slots : MoveAssign(d, s)
       \/ \E s \in Slots : Destroy(s)
    /\ UNCHANGED walkVars

SpecOwn == InitOwn /\ [][NextOwn]_vars

\* a ModuleLineStream over any of the streams
InitWalk ==
    /\ image = SoundImage
    /\ InitFileState
    /\ layout \in Layouts
    /\ InitWalkState

NextWalk ==
    /\ \/ BeginSections
       \/ YieldSection
       \/ AdvanceSection
       \/ EndSections
       \/ BeginLinesBlocks
       \/ LinesBlockStep
       \/ EndLinesBlocks
       \/ BeginFileChecksums
       \/ FileChecksumStep
       \/ EndFileChecksums
    /\ UNCHANGED fileVars

SpecWalk == InitWalk /\ [][NextWalk]_vars

-----------------------------------------------------------------------------
(* Properties of the container layer *)

IsAbsent(size) == size = NilStreamSize

\* the number of directory entries the format gives a stream
RowLength(size, blockSize) ==
    IF IsAbsent(size) THEN 0 ELSE CeilDiv(size, blockSize)

RECURSIVE RowLengthsBefore(_, _, _)
RowLengthsBefore(sizes, blockSize, i) ==
    IF i <= 1 THEN 0
    ELSE RowLengthsBefore(sizes, blockSize, i - 1)
            + RowLength(sizes[i - 1], blockSize)

\* the array a live RawFile holds
StreamBlocksOf(f) == heap[f.m_streamBlocks].rows

Constructed(s) == files[s].live /\ files[s].m_streamBlocks # NullArray

\* C4: after construction streamBlocks[i] is directory entry
\* 1 + streamCount + the sum over j < i of blockCount(j), with blockCount(j)
\* = ceil(streamSizes[j] / blockSize) for a present stream and 0 for an
\* absent one.
C4_RowsFollowBlockCounts ==
    \A s \in Slots : Constructed(s) =>
        \A i \in 1..files[s].m_streamCount :
            StreamBlocksOf(files[s])[i]
                = 1 + files[s].m_streamCount
                    + RowLengthsBefore(image.streamSizes, image.blockSize, i)

\* C5: after construction every row lies inside the coalesced directory
\* buffer of directoryBlockCount * blockSize bytes, that is of
\* directoryBlockCount * (blockSize / 4) entries.
C5_RowsInsideDirectory ==
    \A s \in Slots : Constructed(s) =>
        \A i \in 1..files[s].m_streamCount :
            StreamBlocksOf(files[s])[i]
                + RowLength(image.streamSizes[i], image.blockSize)
            <= GetDirectoryBlockCount(image) * (image.blockSize \div 4)

CreatedStream ==
    lastOp.op \in {"CreateMSFStream", "CreateMSFStreamTruncated"}

\* C6: CreateMSFStream(i) returns a view over row streamBlocks[i] of size
\* streamSizes[i]; CreateMSFStream(i, n) returns a view over the same row
\* of size n, and its assertion fails exactly when n > streamSizes[i].
C6_StreamViewSize ==
    CreatedStream =>
        LET f == files[lastOp.dst]
            i == lastOp.streamIndex + 1
        IN  /\ view.made
            /\ view.blockIndices = StreamBlocksOf(f)[i]
            /\ view.data = f.m_data
            /\ lastOp.op = "CreateMSFStream" =>
                  /\ view.size = image.streamSizes[i]
                  /\ ~assertFailed
            /\ lastOp.op = "CreateMSFStreamTruncated" =>
                  /\ view.size = lastOp.streamSize
                  /\ assertFailed <=> ~U32Le(lastOp.streamSize, image.streamSizes[i])

\* a truncating call that kept its precondition and cut the stream short
C6_Witness ==
    /\ lastOp.op = "CreateMSFStreamTruncated"
    /\ ~assertFailed
    /\ view.made
    /\ view.size = U32(0, 100)
    /\ image.streamSizes[lastOp.streamIndex + 1] = U32(1, 1)
    /\ lastOp.streamIndex = 1

\* C7: for an absent stream (size 0xFFFFFFFF) the created view has size 0
\* (creation never being refused here) and its row holds no entry of
\* another stream.
C7_AbsentStreamEmpty ==
    (CreatedStream /\ lastOp.op = "CreateMSFStream"
        /\ IsAbsent(image.streamSizes[lastOp.streamIndex + 1]))
    => (view.made => view.size = U32(0, 0))

SuperBlockTooSmall(img) == img.len < SizeofSuperBlock \/ img.len < img.blockSize

DirectoryOutOfBounds(img) ==
    \/ img.directoryIndicesBlockIndex >= img.blockCount
    \/ img.directoryBlock >= img.blockCount

\* the outcome the three checks give
ExpectedResult(img) ==
    IF SuperBlockTooSmall(img) THEN "ImageTooSmall"
    ELSE IF ~img.magicOk THEN "InvalidSuperBlockMagic"
    ELSE IF DirectoryOutOfBounds(img) THEN "InvalidDirectoryBounds"
    ELSE "ok"

\* C8: construction fails with ImageTooSmall, InvalidSuperBlockMagic or
\* InvalidDirectoryBounds in the three cases, reads nothing outside the
\* image, and succeeds only when none of the cases holds.
C8_ConstructionValidates ==
    ctor.done =>
        /\ ctor.result = ExpectedResult(image)
        /\ ~ctor.readOutside

Owners(a) == {s \in Slots : files[s].live /\ files[s].m_streamBlocks = a}

IsMovedFrom(f) ==
    /\ f.m_streamCount = 0
    /\ f.m_data = "null"
    /\ f.m_superBlock = "null"
    /\ f.m_streamSizes = "null"
    /\ f.m_streamBlocks = NullArray

\* every array handed out has one owner and no release, or no owner and
\* one release
OwnedOrReleasedOnce ==
    \A a \in AllocIds : heap[a].state # "unused" =>
        /\ Cardinality(Owners(a)) + heap[a].releases = 1
        /\ heap[a].state = "freed" <=> heap[a].releases = 1

\* what each move does to the two objects and to the heap
MoveStep ==
    \A d \in Slots, s \in Slots :
        /\ MoveConstruct(d, s) =>
              /\ IsMovedFrom(files'[s])
              /\ files'[d].m_streamBlocks = files[s].m_streamBlocks
              /\ heap' = heap
        /\ (MoveAssign(d, s) /\ d # s) =>
              /\ IsMovedFrom(files'[s])
              /\ files'[d].m_streamBlocks = files[s].m_streamBlocks
              /\ \A a \in AllocIds :
                    heap'[a].releases =
                        heap[a].releases
                            + (IF a = files[d].m_streamBlocks THEN 1 ELSE 0)
        /\ MoveAssign(d, d) =>
              /\ files' = files
              /\ heap' = heap

\* C10: across construction, moves and destruction each streamBlocks array
\* is owned by at most one RawFile and released exactly once; a moved-from
\* RawFile has streamCount 0 and null pointers; move-assignment releases
\* the target's array and takes the source's; self-assignment changes
\* nothing.
C10_UniqueOwnership == []OwnedOrReleasedOnce /\ [][MoveStep]_vars

\* a move-assignment between two RawFiles that both owned an array
C10_Witness ==
    /\ lastOp.op = "MoveAssign"
    /\ lastOp.dst # lastOp.src
    /\ IsMovedFrom(files[lastOp.src])
    /\ files[lastOp.src].live
    /\ files[lastOp.dst].m_streamBlocks # NullArray
    /\ \E a \in AllocIds : heap[a].state = "freed" /\ heap[a].releases = 1

-----------------------------------------------------------------------------
(* Properties of the subsection walker *)

\* the section at o does not fit the stream: its header or its body
\* reaches past m_stream.GetSize()
SectionOverruns(o) ==
    \/ o + SizeofDebugSubsectionHeader > GetSize
    \/ o + SizeofDebugSubsectionHeader + U32At(o + 4) > GetSize

\* C1: every section passed to the functor starts at an offset current with
\* current + 8 + header.size <= stream.size(), and the starts are multiples
\* of 4 and strictly increasing.
C1_SectionsInBounds ==
    \A k \in DOMAIN yielded :
        /\ ~SectionOverruns(yielded[k])
        /\ yielded[k] % 4 = 0
        /\ k > 1 => yielded[k - 1] < yielded[k]

\* the stream holds a section that overruns it, at a place the walk from
\* o reaches
RECURSIVE ReachesOverrun(_)
ReachesOverrun(o) ==
    IF o >= GetSize THEN FALSE
    ELSE IF SectionOverruns(o) THEN TRUE
    ELSE ReachesOverrun(
            RoundUpToMultiple(o + SizeofDebugSubsectionHeader + U32At(o + 4), 4))

\* C3: a section that overruns the stream is not passed to the functor, and
\* ForEachSection reports MalformedSubsection for it.
C3_OverrunReported ==
    /\ \A k \in DOMAIN yielded : ~SectionOverruns(yielded[k])
    /\ (pcS = "done" /\ ReachesOverrun(m_c13LineInfoOffset))
          => result = "MalformedSubsection"

InEntries == pcB # "idle"

\* where the entry loop of the running walker started
FirstEntryOffset ==
    IF pcB \in {"lines", "linesDone"}
    THEN RoundUpToMultiple(offset + SizeofDebugSubsectionHeader + SizeofLinesHeader, 4)
    ELSE RoundUpToMultiple(offset + SizeofDebugSubsectionHeader, 4)

\* C9: each walker calls its functor at most as often as the range it walks
\* has bytes: the stream for ForEachSection, the bytes from the first entry
\* to headerEnd for ForEachLinesBlock and ForEachFileChecksum.
C9_CallsBounded ==
    /\ Len(yielded) <= GetSize
    /\ InEntries => Len(walked) <= Max({0, headerEnd - FirstEntryOffset})

\* the walkers are in the first section of the stream, the one the layout
\* describes first
InFirstSection ==
    /\ pcS = "callback"
    /\ Len(yielded) = 1
    /\ InEntries
    /\ layout.sections # <<>>

Desc == layout.sections[1]

\* where the entries of the first section were written
Offs(d) == EntryOffsets(d.kind, d.packed, FirstEntry(d.kind, offset), d.entries)

\* the entries of d, each of positive length, tile the body of the section:
\* each starts where the one before ends (rounded: at the next multiple of
\* 4 after it), the last ends where the body ends (rounded: both rounded up
\* to a multiple of 4), and the section lies inside the stream
TilesBody(d, rounded) ==
    LET first == FirstEntry(d.kind, offset)
        bodyEnd == offset + SizeofDebugSubsectionHeader + d.size
    IN  /\ \A i \in DOMAIN d.entries : EntryLength(d.kind, d.entries[i]) > 0
        /\ d.kind = S_LINES =>
              \A i \in DOMAIN d.entries : d.entries[i] >= SizeofLinesFileBlockHeader
        /\ Offs(d) = EntryOffsets(d.kind, ~rounded, first, d.entries)
        /\ IF rounded
           THEN RoundUpToMultiple(bodyEnd, 4)
                  = RoundUpToMultiple(BodyEnd(d.kind, FALSE, first, d.entries), 4)
           ELSE bodyEnd = BodyEnd(d.kind, TRUE, first, d.entries)
        /\ bodyEnd <= GetSize

\* the walk passes the entries of d to the functor, each once and in order,
\* and ends at headerEnd with the final assertion holding
WalkMatches(d) ==
    LET offs == Offs(d)
    IN  /\ headerEnd = RoundUpToMultiple(
                           offset + SizeofDebugSubsectionHeader + d.size, 4)
        /\ Len(walked) <= Len(offs)
        /\ \A i \in DOMAIN walked : walked[i] = offs[i]
        /\ Len(walked) < Len(offs) => entOffset = offs[Len(walked) + 1]
        /\ Len(walked) = Len(offs) => entOffset = headerEnd
        /\ pcB \in {"linesDone", "checksumsDone"} =>
              /\ Len(walked) = Len(offs)
              /\ entOffset = headerEnd
              /\ ~mismatch

\* C2 as stated: an S_LINES section whose LinesFileBlockHeader.size values
\* tile the body, or an S_FILECHECKSUMS section whose 4-byte-rounded
\* header + checksumSize lengths tile it, is walked entry by entry and the
\* loop ends at headerEnd.
C2_WalkEndsAtHeaderEnd_AsStated ==
    (InFirstSection
        /\ TilesBody(Desc, Desc.kind = S_FILECHECKSUMS))
    => WalkMatches(Desc)

\* C2, amended: a section of either kind whose entry lengths, each rounded
\* up to a multiple of 4, tile the body is walked entry by entry and the
\* loop ends at headerEnd.
C2_WalkEndsAtHeaderEnd ==
    (InFirstSection /\ TilesBody(Desc, TRUE)) => WalkMatches(Desc)

\* ForEachLinesBlock has finished a section of two blocks, the first of a
\* size that is no multiple of 4
C2_Witness ==
    /\ InFirstSection
    /\ TilesBody(Desc, TRUE)
    /\ pcB = "linesDone"
    /\ Len(walked) = 2
    /\ Desc.entries[1] = 13
    /\ ~mismatch

=============================================================================
